---- MODULE Spec2Model ----
(***************************************************************************)
(* Model of src/main.py: the CityGraph store, the single-criterion        *)
(* shortest-path solver RouteOptimizer.find_optimal_path, the             *)
(* orchestrator get_all_optimal_routes, the selector                      *)
(* find_compromise_route and the request loop of main.                    *)
(*                                                                         *)
(* Python values are represented as follows.                              *)
(*   dict            a function; its DOMAIN is the set of keys            *)
(*   list / tuple    a sequence                                            *)
(*   str             a sequence of one-character strings                  *)
(*   None            the definition None (ids of the model are >= 0)      *)
(*   float('inf')    the definition Inf (path sums are >= 0)              *)
(*   KeyError        the field err of a result                            *)
(* The Cyrillic literals of the source are written in Latin letters:      *)
(* "D", "V", "S" for the priority letters and "DLINA", "VREMYA",          *)
(* "STOIMOST" for the criterion names.                                    *)
(***************************************************************************)
EXTENDS Integers, Sequences, FiniteSets, TLC

VARIABLES cities, name_to_id, graph, phase, ret, all_results

vars == <<cities, name_to_id, graph, phase, ret, all_results>>

(***************************************************************************)
(* Bounds of the model.                                                    *)
(***************************************************************************)
MaxRoads == 4
MaxPrioLen == 3
MaxRequests == 2
MaxInputRoads == 1

Criteria == {0, 1, 2}

None == -1
Inf == -1

SeqsUpTo(S, n) == UNION {[1..k -> S] : k \in 0..n}

(***************************************************************************)
(* Roads offered to add_road: <<id1, id2, distance, time, cost>>.  They    *)
(* form a diamond 0-1-3 / 0-2-3 whose two sides tie on distance, and a     *)
(* second road between 0 and 1, given from the other end.                  *)
(***************************************************************************)
RoadInputs ==
    { <<0, 1, 1, 2, 0>>,
      <<1, 3, 2, 2, 0>>,
      <<0, 2, 2, 0, 1>>,
      <<2, 3, 1, 0, 1>>,
      <<1, 0, 1, 0, 2>> }

\* Location ids used in calls: the ends of the roads.
Ids == UNION {{r[1], r[2]} : r \in RoadInputs}

\* Cities offered to add_city: <<city_id, name>>.  Id 1 is offered under
\* two names and the name "a" under two ids.
CityInputs ==
    { <<0, <<"a">>>>,
      <<1, <<" ", "b">>>>,
      <<2, <<"c", " ">>>>,
      <<1, <<"a">>>> }

\* Names used in requests; each is unknown until add_city registers it.
RequestNames == { <<"a">>, <<" ", "b">>, <<"c">> }

(***************************************************************************)
(* Strings.                                                                *)
(***************************************************************************)
Whitespace == {" "}

RECURSIVE LStrip(_, _)
LStrip(s, chars) ==
    IF s # <<>> /\ Head(s) \in chars THEN LStrip(Tail(s), chars) ELSE s

RECURSIVE RStrip(_, _)
RStrip(s, chars) ==
    IF s # <<>> /\ s[Len(s)] \in chars
    THEN RStrip(SubSeq(s, 1, Len(s) - 1), chars)
    ELSE s

\* str.strip(chars): drops the leading and the trailing characters in chars.
Strip(s, chars) == RStrip(LStrip(s, chars), chars)

\* dict[key] = value
Put(f, k, v) == [x \in DOMAIN f \cup {k} |-> IF x = k THEN v ELSE f[x]]

(***************************************************************************)
(* CityGraph                                                               *)
(***************************************************************************)
\* defaultdict(list).__getitem__ on a missing key stores an empty list.
Touch(g, k) == IF k \in DOMAIN g THEN g ELSE Put(g, k, <<>>)

add_city_cities(cs, city_id, name) == Put(cs, city_id, Strip(name, Whitespace))

add_city_index(idx, city_id, name) == Put(idx, Strip(name, Whitespace), city_id)

\* add_road whose second entry names id2 itself instead of id1.
add_road_SelfEntry(g, id1, id2, distance, time, cost) ==
    LET g1 == Touch(g, id1)
        g2 == [g1 EXCEPT ![id1] = Append(@, <<id2, distance, time, cost>>)]
        g3 == Touch(g2, id2)
    IN  [g3 EXCEPT ![id2] = Append(@, <<id2, distance, time, cost>>)]

add_road(g, id1, id2, distance, time, cost) ==
    LET g1 == Touch(g, id1)
        g2 == [g1 EXCEPT ![id1] = Append(@, <<id2, distance, time, cost>>)]
        g3 == Touch(g2, id2)
    IN  [g3 EXCEPT ![id2] = Append(@, <<id1, distance, time, cost>>)]

get_id_by_name(idx, name) ==
    LET n == Strip(name, Whitespace)
    IN  IF n \in DOMAIN idx THEN idx[n] ELSE None

get_name_by_id(cs, city_id) ==
    IF city_id \in DOMAIN cs THEN cs[city_id] ELSE <<>>

\* Number of add_road calls that built g: each call appends two entries.
RECURSIVE SumLen(_, _)
SumLen(g, S) ==
    IF S = {} THEN 0
    ELSE LET k == CHOOSE x \in S : TRUE
         IN  Len(g[k]) + SumLen(g, S \ {k})

NumRoads(g) == SumLen(g, DOMAIN g) \div 2

(***************************************************************************)
(* RouteOptimizer.find_optimal_path                                        *)
(***************************************************************************)
\* ([], (0, 0, 0)): what the code returns for "no path".
NoPath == [path |-> <<>>, totals |-> <<0, 0, 0>>]

\* The outcome of a call: a returned value, or a raised KeyError.
Returned(v) == [err |-> FALSE, val |-> v]
KeyError == [err |-> TRUE, val |-> NoPath]

\* a < b where b may be float('inf')
Less(a, b) == b = Inf \/ a < b

\* heapq.heappop: the smallest (dist, node) tuple.  An entry is pushed only
\* when it strictly lowers distances[node], so the entries are distinct and
\* the heap is the set of them.
HeapMin(heap) ==
    CHOOSE e \in heap :
        \A f \in heap : e[1] < f[1] \/ (e[1] = f[1] /\ e[2] <= f[2])

\* RelaxEdge that extends the totals of the neighbour, not of current.
RelaxEdge_StaleTotals(st, current, neighbor, new_criterion_dist, dist, time, cost) ==
    LET old_params == st.total_params[neighbor]
    IN  [st EXCEPT
            !.distances = Put(@, neighbor, new_criterion_dist),
            !.prev = Put(@, neighbor, current),
            !.total_params = Put(@, neighbor, <<old_params[1] + dist,
                                                old_params[2] + time,
                                                old_params[3] + cost>>),
            !.heap = @ \cup {<<new_criterion_dist, neighbor>>}]

\* The update of one neighbour when the relaxation test succeeds (66-72).
RelaxEdge(st, current, neighbor, new_criterion_dist, dist, time, cost) ==
    LET old_params == st.total_params[current]
    IN  [st EXCEPT
            !.distances = Put(@, neighbor, new_criterion_dist),
            !.prev = Put(@, neighbor, current),
            !.total_params = Put(@, neighbor, <<old_params[1] + dist,
                                                old_params[2] + time,
                                                old_params[3] + cost>>),
            !.heap = @ \cup {<<new_criterion_dist, neighbor>>}]

\* A relaxation test that keeps the first distance found for a node.
Improves_FirstSeen(new_criterion_dist, old) == old = Inf

\* The relaxation test of line 65.
Improves(new_criterion_dist, old) == Less(new_criterion_dist, old)

\* The for loop of lines 61-72 over the adjacency list adj, from entry k.
RECURSIVE RelaxAll(_, _, _, _, _, _)
RelaxAll(st, adj, k, current, current_dist, criterion) ==
    IF k > Len(adj) \/ st.err THEN st
    ELSE LET neighbor == adj[k][1]
             params == <<adj[k][2], adj[k][3], adj[k][4]>>
             new_criterion_dist == current_dist + params[criterion + 1]
         IN  IF neighbor \notin DOMAIN st.distances
             THEN [st EXCEPT !.err = TRUE]
             ELSE IF Improves(new_criterion_dist, st.distances[neighbor])
             THEN RelaxAll(RelaxEdge(st, current, neighbor, new_criterion_dist,
                                     params[1], params[2], params[3]),
                           adj, k + 1, current, current_dist, criterion)
             ELSE RelaxAll(st, adj, k + 1, current, current_dist, criterion)

\* The while loop of lines 52-72.
RECURSIVE SearchLoop(_, _, _)
SearchLoop(st, end_id, criterion) ==
    IF st.heap = {} \/ st.err THEN st
    ELSE LET top == HeapMin(st.heap)
             current_dist == top[1]
             current == top[2]
             popped == [st EXCEPT !.heap = @ \ {top}]
         IN  IF current_dist > st.distances[current]
             THEN SearchLoop(popped, end_id, criterion)
             ELSE IF current = end_id
             THEN popped
             ELSE LET g1 == Touch(st.graph, current)
                  IN  SearchLoop(RelaxAll([popped EXCEPT !.graph = g1],
                                          g1[current], 1, current,
                                          current_dist, criterion),
                                 end_id, criterion)

\* The walk of lines 77-82 back along prev; acc is the reversed list.
RECURSIVE WalkBack(_, _, _)
WalkBack(prev, current, acc) ==
    IF current = None THEN [err |-> FALSE, path |-> acc]
    ELSE IF current \notin DOMAIN prev THEN [err |-> TRUE, path |-> <<>>]
    ELSE WalkBack(prev, prev[current], <<current>> \o acc)

\* Lines 43-50: the bookkeeping before the loop.
SearchInit(g, start_id) ==
    [distances |-> Put([node \in DOMAIN g |-> Inf], start_id, 0),
     prev |-> [node \in DOMAIN g |-> None],
     total_params |-> Put([node \in DOMAIN g |-> <<0, 0, 0>>], start_id, <<0, 0, 0>>),
     heap |-> {<<0, start_id>>},
     graph |-> g,
     err |-> FALSE]

\* The whole call: out is what it returns (or KeyError), graph is the
\* adjacency structure it leaves behind.
find_optimal_path(g, start_id, end_id, criterion) ==
    LET st == SearchLoop(SearchInit(g, start_id), end_id, criterion)
        walk == WalkBack(st.prev, end_id, <<>>)
        out == IF st.err \/ end_id \notin DOMAIN st.distances THEN KeyError
               ELSE IF st.distances[end_id] = Inf THEN Returned(NoPath)
               ELSE IF walk.err THEN KeyError
               ELSE Returned([path |-> walk.path,
                              totals |-> st.total_params[end_id]])
    IN  [out |-> out, graph |-> st.graph]

(***************************************************************************)
(* RouteOptimizer.get_all_optimal_routes                                   *)
(***************************************************************************)
criteria == << <<"DLINA", 0>>, <<"VREMYA", 1>>, <<"STOIMOST", 2>> >>

\* Python's "not x" for an Optional[int]: None and 0 are both falsy.
Falsy(x) == x = None \/ x = 0

\* The for loop of lines 98-101 from its k-th criterion; acc carries the
\* results so far and the adjacency structure the calls leave behind.
RECURSIVE RunCriteria(_, _, _, _)
RunCriteria(acc, start_id, end_id, k) ==
    IF k > Len(criteria) \/ acc.err THEN acc
    ELSE LET r == find_optimal_path(acc.graph, start_id, end_id, criteria[k][2])
         IN  IF r.out.err
             THEN [err |-> TRUE, routes |-> acc.routes, graph |-> r.graph]
             ELSE RunCriteria(
                      [err |-> FALSE,
                       routes |-> IF r.out.val.path # <<>>
                                  THEN Put(acc.routes, criteria[k][1], r.out.val)
                                  ELSE acc.routes,
                       graph |-> r.graph],
                      start_id, end_id, k + 1)

get_all_optimal_routes(idx, g, start, end) ==
    LET start_id == get_id_by_name(idx, start)
        end_id == get_id_by_name(idx, end)
    IN  IF Falsy(start_id) \/ Falsy(end_id)
        THEN [err |-> FALSE, routes |-> <<>>, graph |-> g]
        ELSE RunCriteria([err |-> FALSE, routes |-> <<>>, graph |-> g],
                         start_id, end_id, 1)

(***************************************************************************)
(* RouteOptimizer.find_compromise_route                                    *)
(***************************************************************************)
\* str.replace(" ", "")
RemoveSpaces(s) == SelectSeq(s, LAMBDA ch : ch # " ")

\* str.split(","): the pieces between the commas, empty pieces included.
RECURSIVE Split(_)
Split(s) ==
    IF \A i \in 1..Len(s) : s[i] # ","
    THEN <<s>>
    ELSE LET i == CHOOSE j \in 1..Len(s) :
                      s[j] = "," /\ \A h \in 1..(j - 1) : s[h] # ","
         IN  <<SubSeq(s, 1, i - 1)>> \o Split(SubSeq(s, i + 1, Len(s)))

\* criterion_map.get(criterion): None for a tag that is no key.
criterion_map(tag) ==
    IF tag = <<"D">> THEN "DLINA"
    ELSE IF tag = <<"V">> THEN "VREMYA"
    ELSE IF tag = <<"S">> THEN "STOIMOST"
    ELSE "None"

\* A scan that gives up at the first tag without an entry.
RECURSIVE ScanPriorities_StopAtMiss(_, _, _)
ScanPriorities_StopAtMiss(routes, priority_order, k) ==
    IF k > Len(priority_order) THEN NoPath
    ELSE LET route_key == criterion_map(priority_order[k])
         IN  IF route_key \in DOMAIN routes
             THEN routes[route_key]
             ELSE NoPath

\* The for loop of lines 113-118 from the k-th tag.
RECURSIVE ScanPriorities(_, _, _)
ScanPriorities(routes, priority_order, k) ==
    IF k > Len(priority_order) THEN NoPath
    ELSE LET route_key == criterion_map(priority_order[k])
         IN  IF route_key \in DOMAIN routes
             THEN routes[route_key]
             ELSE ScanPriorities(routes, priority_order, k + 1)

priority_order_of(priorities) ==
    Split(RemoveSpaces(Strip(priorities, {"(", ")"})))

find_compromise_route(routes, priorities) ==
    ScanPriorities(routes, priority_order_of(priorities), 1)

(***************************************************************************)
(* main: the body of the request loop                                      *)
(***************************************************************************)
Line(kind, label, text, params) ==
    [kind |-> kind, label |-> label, text |-> text, params |-> params]

\* The names of the path's ids, in order (the join is not modelled).
format_path(path, cs) == [i \in 1..Len(path) |-> get_name_by_id(cs, path[i])]

\* Lines 236-243: one line per criterion.
RECURSIVE CriterionLines(_, _, _)
CriterionLines(routes, cs, k) ==
    IF k > Len(criteria) THEN <<>>
    ELSE LET criterion == criteria[k][1]
         IN  << IF criterion \in DOMAIN routes
                THEN Line("route", criterion,
                          format_path(routes[criterion].path, cs),
                          routes[criterion].totals)
                ELSE Line("no_path", criterion, <<>>, <<0, 0, 0>>) >>
             \o CriterionLines(routes, cs, k + 1)

\* Lines 230-254.  exit is TRUE when the call raises: the except clause of
\* main then ends the run with sys.exit(1) and nothing is written.
process_request(cs, idx, g, results, start_city, end_city, priorities) ==
    LET r == get_all_optimal_routes(idx, g, start_city, end_city)
        compromise == find_compromise_route(r.routes, priorities)
    IN  IF r.err
        THEN [exit |-> TRUE, all_results |-> results, graph |-> r.graph]
        ELSE IF DOMAIN r.routes = {}
        THEN [exit |-> FALSE,
              all_results |-> Append(results,
                  Line("no_path_between", "", <<start_city, end_city>>, <<0, 0, 0>>)),
              graph |-> r.graph]
        ELSE [exit |-> FALSE,
              all_results |-> results \o CriterionLines(r.routes, cs, 1)
                  \o << IF compromise.path # <<>>
                        THEN Line("route", "KOMPROMISS",
                                  format_path(compromise.path, cs),
                                  compromise.totals)
                        ELSE Line("no_path", "KOMPROMISS", <<>>, <<0, 0, 0>>),
                        Line("blank", "", <<>>, <<0, 0, 0>>) >>,
              graph |-> r.graph]

\* The requests main has processed: each one ends in a blank line or is
\* answered by the single line "no path between".
NumProcessed(results) ==
    Len(SelectSeq(results, LAMBDA l : l.kind \in {"blank", "no_path_between"}))

(***************************************************************************)
(* Inputs of the calls                                                     *)
(***************************************************************************)
PrioChars == {"(", ")", " ", ",", "D", "V", "S", "X"}
PrioStrings == SeqsUpTo(PrioChars, MaxPrioLen)

\* The default priority string of parse_input, and one with no known tag.
MainPriorities == { <<"(", "D", ",", "V", ",", "S", ")">>, <<"X">> }

\* The two routes from 0 to 1 over the two roads that join them.
RouteValues ==
    { [path |-> <<0, 1>>, totals |-> <<1, 2, 0>>],
      [path |-> <<0, 1>>, totals |-> <<1, 0, 2>>] }

RouteKeys == {criteria[k][1] : k \in 1..Len(criteria)}

\* Every dict from some of the criterion names to a route.
RouteSets == UNION {[K -> RouteValues] : K \in SUBSET RouteKeys}

(***************************************************************************)
(* Actions.  A call is issued (its arguments are chosen, ret.done is       *)
(* FALSE) and then runs to completion in one step.                         *)
(***************************************************************************)
NoCall == [op |-> "none", done |-> TRUE]

InitStore ==
    /\ cities = <<>>
    /\ name_to_id = <<>>
    /\ graph = <<>>
    /\ phase = "build"
    /\ ret = NoCall
    /\ all_results = <<>>

\* CityGraph.add_city
AddCity ==
    /\ phase = "build"
    /\ \E c \in CityInputs :
           /\ cities' = add_city_cities(cities, c[1], c[2])
           /\ name_to_id' = add_city_index(name_to_id, c[1], c[2])
    /\ UNCHANGED <<graph, phase, ret, all_results>>

\* CityGraph.add_road, at most limit times.
AddRoad(limit) ==
    /\ phase = "build"
    /\ NumRoads(graph) < limit
    /\ \E r \in RoadInputs :
           graph' = add_road(graph, r[1], r[2], r[3], r[4], r[5])
    /\ UNCHANGED <<cities, name_to_id, phase, ret, all_results>>

CallFindOptimalPath ==
    /\ phase \in {"build", "query"}
    /\ ret.done
    /\ \E s \in Ids, t \in Ids, c \in Criteria :
           ret' = [op |-> "find_optimal_path", done |-> FALSE, start_id |-> s,
                   end_id |-> t, criterion |-> c, out |-> Returned(NoPath)]
    /\ phase' = "query"
    /\ UNCHANGED <<cities, name_to_id, graph, all_results>>

\* RouteOptimizer.find_optimal_path
FindOptimalPath ==
    /\ ret.op = "find_optimal_path"
    /\ ~ret.done
    /\ LET r == find_optimal_path(graph, ret.start_id, ret.end_id, ret.criterion)
       IN  /\ graph' = r.graph
           /\ ret' = [ret EXCEPT !.done = TRUE, !.out = r.out]
    /\ UNCHANGED <<cities, name_to_id, phase, all_results>>

CallGetAllOptimalRoutes ==
    /\ phase \in {"build", "query"}
    /\ ret.done
    /\ \E a \in RequestNames, b \in RequestNames :
           ret' = [op |-> "get_all_optimal_routes", done |-> FALSE,
                   start |-> a, end |-> b, err |-> FALSE, routes |-> <<>>]
    /\ phase' = "query"
    /\ UNCHANGED <<cities, name_to_id, graph, all_results>>

\* RouteOptimizer.get_all_optimal_routes
GetAllOptimalRoutes ==
    /\ ret.op = "get_all_optimal_routes"
    /\ ~ret.done
    /\ LET r == get_all_optimal_routes(name_to_id, graph, ret.start, ret.end)
       IN  /\ graph' = r.graph
           /\ ret' = [ret EXCEPT !.done = TRUE, !.err = r.err, !.routes = r.routes]
    /\ UNCHANGED <<cities, name_to_id, phase, all_results>>

\* RouteOptimizer.find_compromise_route
FindCompromiseRoute ==
    /\ ret.op = "find_compromise_route"
    /\ ~ret.done
    /\ ret' = [ret EXCEPT !.done = TRUE,
                          !.out = find_compromise_route(ret.routes, ret.priorities)]
    /\ UNCHANGED <<cities, name_to_id, graph, phase, all_results>>

\* main, line 229: the loop takes the next request; parse_input has
\* stripped its two names (lines 202-204).
NextRequest ==
    /\ phase \in {"build", "requests"}
    /\ ret.done
    /\ NumProcessed(all_results) < MaxRequests
    /\ \E a \in RequestNames, b \in RequestNames, p \in MainPriorities :
           ret' = [op |-> "request", done |-> FALSE,
                   start_city |-> Strip(a, Whitespace),
                   end_city |-> Strip(b, Whitespace), priorities |-> p]
    /\ phase' = "requests"
    /\ UNCHANGED <<cities, name_to_id, graph, all_results>>

\* main, lines 230-254 and the except clause of lines 262-264.
ProcessRequest ==
    /\ ret.op = "request"
    /\ ~ret.done
    /\ LET r == process_request(cities, name_to_id, graph, all_results,
                                ret.start_city, ret.end_city, ret.priorities)
       IN  /\ graph' = r.graph
           /\ all_results' = r.all_results
           /\ phase' = IF r.exit THEN "exit1" ELSE "requests"
    /\ ret' = [ret EXCEPT !.done = TRUE]
    /\ UNCHANGED <<cities, name_to_id>>

\* main, line 256: the loop is over and the lines are written.
WriteOutput ==
    /\ phase \in {"build", "requests"}
    /\ ret.done
    /\ phase' = "written"
    /\ UNCHANGED <<cities, name_to_id, graph, ret, all_results>>

(***************************************************************************)
(* Specifications                                                          *)
(***************************************************************************)
\* The program: the store is built, then either the optimizer is called
\* directly or main runs its request loop.
Init == InitStore

Next ==
    \/ AddCity
    \/ AddRoad(MaxInputRoads)
    \/ CallFindOptimalPath
    \/ FindOptimalPath
    \/ CallGetAllOptimalRoutes
    \/ GetAllOptimalRoutes
    \/ NextRequest
    \/ ProcessRequest
    \/ WriteOutput

Spec == Init /\ [][Next]_vars

\* The solver on the graphs of up to MaxRoads roads.
NextSolve ==
    \/ AddRoad(MaxRoads)
    \/ CallFindOptimalPath
    \/ FindOptimalPath

SpecSolve == InitStore /\ [][NextSolve]_vars

\* The selector on every route set and every priority string.
InitSelect ==
    /\ cities = <<>>
    /\ name_to_id = <<>>
    /\ graph = <<>>
    /\ phase = "query"
    /\ all_results = <<>>
    /\ \E routes \in RouteSets, p \in PrioStrings :
           ret = [op |-> "find_compromise_route", done |-> FALSE,
                  routes |-> routes, priorities |-> p, out |-> NoPath]

NextSelect == FindCompromiseRoute

SpecSelect == InitSelect /\ [][NextSelect]_vars

(***************************************************************************)
(* Paths of the graph, for the statements below                            *)
(***************************************************************************)
Range(p) == {p[i] : i \in 1..Len(p)}

Reverse(p) == [i \in 1..Len(p) |-> p[Len(p) + 1 - i]]

Neighbors(g, u) ==
    IF u \in DOMAIN g THEN {g[u][k][1] : k \in 1..Len(g[u])} ELSE {}

\* The simple paths that extend p to t.
RECURSIVE Extend(_, _, _)
Extend(g, p, t) ==
    IF p[Len(p)] = t THEN {p}
    ELSE UNION {Extend(g, Append(p, v), t) :
                    v \in Neighbors(g, p[Len(p)]) \ Range(p)}

SimplePaths(g, s, t) == Extend(g, <<s>>, t)

\* The roads from u to v, as positions in the adjacency list of u.
RoadsBetween(g, u, v) ==
    IF u \in DOMAIN g THEN {k \in 1..Len(g[u]) : g[u][k][1] = v} ELSE {}

\* The ways of choosing one road for each consecutive pair of p.
RECURSIVE Choices(_, _)
Choices(g, p) ==
    IF Len(p) <= 1 THEN {<<>>}
    ELSE {<<k>> \o rest : k \in RoadsBetween(g, p[1], p[2]),
                          rest \in Choices(g, Tail(p))}

\* The component-wise sum of the weights of the chosen roads.
RECURSIVE ChoiceTotals(_, _, _)
ChoiceTotals(g, p, ch) ==
    IF Len(p) <= 1 THEN <<0, 0, 0>>
    ELSE LET e == g[p[1]][ch[1]]
             t == ChoiceTotals(g, Tail(p), Tail(ch))
         IN  <<e[2] + t[1], e[3] + t[2], e[4] + t[3]>>

PathTotals(g, p) == {ChoiceTotals(g, p, ch) : ch \in Choices(g, p)}

\* The totals of all simple paths from s to t, over all choices of roads.
AllTotals(g, s, t) == UNION {PathTotals(g, p) : p \in SimplePaths(g, s, t)}

\* The simple paths from s to t, each with a choice of roads, whose sum on
\* criterion c is minimal.
OptimalRoadPaths(g, s, t, c) ==
    LET all == UNION {{<<p, ch>> : ch \in Choices(g, p)} :
                          p \in SimplePaths(g, s, t)}
    IN  {x \in all :
            \A y \in all : ChoiceTotals(g, x[1], x[2])[c + 1]
                               <= ChoiceTotals(g, y[1], y[2])[c + 1]}

\* find_optimal_path has just returned a non-empty path.
FoundPath ==
    /\ ret.op = "find_optimal_path"
    /\ ret.done
    /\ ~ret.out.err
    /\ ret.out.val.path # <<>>

\* What the opposite call returns in the current state.
Back == find_optimal_path(graph, ret.end_id, ret.start_id, ret.criterion).out

(***************************************************************************)
(* C1: when find_optimal_path returns a path, the total on the selected    *)
(* criterion is the minimum of that criterion's sum over all simple paths  *)
(* between the pair, every choice among parallel roads included.           *)
(***************************************************************************)
C1_Optimal ==
    FoundPath =>
        LET all == AllTotals(graph, ret.start_id, ret.end_id)
            got == ret.out.val.totals[ret.criterion + 1]
        IN  /\ \A t \in all : got <= t[ret.criterion + 1]
            /\ \E t \in all : got = t[ret.criterion + 1]

\* A three-node path was returned although another simple path, and a
\* parallel road, cost strictly more on the criterion.
C1_Witness ==
    /\ FoundPath
    /\ Len(ret.out.val.path) = 3
    /\ \E t \in AllTotals(graph, ret.start_id, ret.end_id) :
           t[ret.criterion + 1] > ret.out.val.totals[ret.criterion + 1]
    /\ \E u \in DOMAIN graph, v \in DOMAIN graph :
           Cardinality(RoadsBetween(graph, u, v)) >= 2 /\ u # v

(***************************************************************************)
(* C8: a returned non-empty path starts at the source, ends at the target, *)
(* joins consecutive ids by roads, and its totals are the component-wise   *)
(* sum of the weights of one road per consecutive pair.                    *)
(***************************************************************************)
C8_TotalsFollowPath ==
    FoundPath =>
        LET path == ret.out.val.path
        IN  /\ path[1] = ret.start_id
            /\ path[Len(path)] = ret.end_id
            /\ ret.out.val.totals \in PathTotals(graph, path)

\* The totals of a returned three-node path exceed, in some component, the
\* least sum of that component over the simple paths: they are not
\* minimized per component.
C8_Witness ==
    /\ FoundPath
    /\ Len(ret.out.val.path) = 3
    /\ \E j \in 1..3 :
           \E t \in AllTotals(graph, ret.start_id, ret.end_id) :
               t[j] < ret.out.val.totals[j]

(***************************************************************************)
(* C6, as claimed: when find_optimal_path(A, B, c) returns path P with     *)
(* totals T, the reverse of P is a path from B to A and                    *)
(* find_optimal_path(B, A, c) returns totals equal to T in all three       *)
(* components.                                                             *)
(***************************************************************************)
C6_SymmetricTotals ==
    FoundPath =>
        LET path == ret.out.val.path
        IN  /\ Reverse(path)[1] = ret.end_id
            /\ Reverse(path)[Len(path)] = ret.start_id
            /\ PathTotals(graph, Reverse(path)) # {}
            /\ ~Back.err
            /\ Back.val.path # <<>>
            /\ Back.val.totals = ret.out.val.totals

(***************************************************************************)
(* C6, amended: the reverse of P is a path from B to A and                 *)
(* find_optimal_path(B, A, c) returns a path whose total on criterion c    *)
(* equals that of T; the three totals are all equal when a single simple   *)
(* path, with a single choice of roads, is minimal on c.                   *)
(***************************************************************************)
C6_SymmetricOnCriterion ==
    FoundPath =>
        LET path == ret.out.val.path
            c == ret.criterion
        IN  /\ Reverse(path)[1] = ret.end_id
            /\ Reverse(path)[Len(path)] = ret.start_id
            /\ PathTotals(graph, Reverse(path)) # {}
            /\ ~Back.err
            /\ Back.val.path # <<>>
            /\ Back.val.totals[c + 1] = ret.out.val.totals[c + 1]
            /\ Cardinality(OptimalRoadPaths(graph, ret.start_id, ret.end_id, c)) = 1
                  => Back.val.totals = ret.out.val.totals

\* Two paths tie on the criterion and the two directions return different
\* totals that agree on the criterion.
C6_Witness ==
    /\ FoundPath
    /\ Len(ret.out.val.path) = 3
    /\ ~Back.err
    /\ Back.val.totals # ret.out.val.totals
    /\ Back.val.totals[ret.criterion + 1] = ret.out.val.totals[ret.criterion + 1]

(***************************************************************************)
(* C5: find_compromise_route returns the route stored under the first tag  *)
(* of the priority order whose criterion has an entry, skipping the tags   *)
(* that are no criterion letter, and NoPath when no tag has an entry; the  *)
(* result is NoPath or one of the values of routes.                        *)
(***************************************************************************)
TagKey(tag) ==
    CASE tag = <<"D">> -> "DLINA"
      [] tag = <<"V">> -> "VREMYA"
      [] tag = <<"S">> -> "STOIMOST"
      [] OTHER -> "None"

C5_FirstListedEntry ==
    (ret.op = "find_compromise_route" /\ ret.done) =>
        LET order == priority_order_of(ret.priorities)
            hits == {k \in 1..Len(order) : TagKey(order[k]) \in DOMAIN ret.routes}
        IN  /\ hits = {} => ret.out = NoPath
            /\ hits # {} =>
                   \E k \in hits :
                       /\ \A h \in hits : k <= h
                       /\ ret.out = ret.routes[TagKey(order[k])]
            /\ ret.out = NoPath \/ \E key \in DOMAIN ret.routes : ret.out = ret.routes[key]

\* The first tag is no criterion letter, a later tag has an entry, and
\* routes holds another route as well.
C5_Witness ==
    /\ ret.op = "find_compromise_route"
    /\ ret.done
    /\ LET order == priority_order_of(ret.priorities)
       IN  /\ Len(order) >= 2
           /\ TagKey(order[1]) = "None"
           /\ TagKey(order[2]) \in DOMAIN ret.routes
    /\ \E key \in DOMAIN ret.routes : ret.routes[key] # ret.out
    /\ ret.out # NoPath

(***************************************************************************)
(* Statements about the program as a whole (specification Spec)            *)
(***************************************************************************)
\* This step is the run of a find_optimal_path call.
RunsFindOptimalPath ==
    /\ ret.op = "find_optimal_path"
    /\ ~ret.done
    /\ ret'.op = "find_optimal_path"
    /\ ret'.done

(***************************************************************************)
(* C2: a call of find_optimal_path whose source or target is no key of     *)
(* the adjacency structure, or whose target cannot be reached from its     *)
(* source, returns NoPath and raises nothing.  (Stated for source #        *)
(* target; C3 is about source = target.)                                   *)
(***************************************************************************)
C2_MissingOrUnreachableIsNoPath ==
    [][(/\ RunsFindOptimalPath
        /\ ret.start_id # ret.end_id
        /\ \/ ret.start_id \notin DOMAIN graph
           \/ ret.end_id \notin DOMAIN graph
           \/ SimplePaths(graph, ret.start_id, ret.end_id) = {})
       => ret'.out = Returned(NoPath)]_vars

(***************************************************************************)
(* C3: for every location, with or without roads, find_optimal_path from   *)
(* the location to itself returns the one-node path with totals (0,0,0).   *)
(***************************************************************************)
C3_SourceIsTarget ==
    [][(/\ RunsFindOptimalPath
        /\ ret.start_id = ret.end_id
        /\ ret.start_id \in DOMAIN cities \cup DOMAIN graph)
       => ret'.out = Returned([path |-> <<ret.start_id>>, totals |-> <<0, 0, 0>>])]_vars

(***************************************************************************)
(* C4: get_all_optimal_routes returns an empty route set when a name is    *)
(* not registered; when both are, it runs the solver for distance, time    *)
(* and cost in this order and holds an entry for a criterion exactly when  *)
(* the solver returned a path for it, with that result as the value.       *)
(* (Stated for the calls whose three solver calls all return; C2 and C3    *)
(* are about the solver calls that raise.)                                 *)
(***************************************************************************)
\* The outcome of the k-th solver call of the three, each run on the
\* adjacency structure the calls before it left behind.
RECURSIVE SolverCall(_, _, _, _)
SolverCall(g, s, t, k) ==
    IF k = 1 THEN find_optimal_path(g, s, t, criteria[1][2])
    ELSE find_optimal_path(SolverCall(g, s, t, k - 1).graph, s, t, criteria[k][2])

C4_RoutesMatchSolver ==
    [][(/\ ret.op = "get_all_optimal_routes"
        /\ ~ret.done
        /\ ret'.op = "get_all_optimal_routes"
        /\ ret'.done)
       => LET s == Strip(ret.start, Whitespace)
              t == Strip(ret.end, Whitespace)
          IN  /\ (s \notin DOMAIN name_to_id \/ t \notin DOMAIN name_to_id)
                     => (~ret'.err /\ DOMAIN ret'.routes = {})
              /\ (/\ s \in DOMAIN name_to_id
                  /\ t \in DOMAIN name_to_id
                  /\ \A k \in 1..Len(criteria) :
                         ~SolverCall(graph, name_to_id[s], name_to_id[t], k).out.err)
                     => \A k \in 1..Len(criteria) :
                            LET r == SolverCall(graph, name_to_id[s], name_to_id[t], k).out
                                key == criteria[k][1]
                            IN  /\ ~ret'.err
                                /\ key \in DOMAIN ret'.routes
                                       <=> (~r.err /\ r.val # NoPath)
                                /\ key \in DOMAIN ret'.routes
                                       => ret'.routes[key] = r.val]_vars

(***************************************************************************)
(* C7: no request makes the run of main abort: whatever the requests, the  *)
(* loop goes on to the later ones and the lines are written.               *)
(***************************************************************************)
C7_NoRequestAborts == phase # "exit1"

(***************************************************************************)
(* C9: once the store is built, no call changes the locations, the name    *)
(* index or the adjacency structure.                                       *)
(***************************************************************************)
C9_StoreNotMutated ==
    [][phase' # "build" =>
           /\ cities' = cities
           /\ name_to_id' = name_to_id
           /\ graph' = graph]_vars

(***************************************************************************)
(* C10: after any add_city calls the two lookups are inverse to each       *)
(* other: a name that get_id_by_name maps to id i is the name              *)
(* get_name_by_id gives for i, and the name of every registered id is      *)
(* mapped back to that id.                                                 *)
(***************************************************************************)
C10_LookupsInverse ==
    /\ \A c \in CityInputs :
           LET i == get_id_by_name(name_to_id, c[2])
           IN  i # None => get_name_by_id(cities, i) = Strip(c[2], Whitespace)
    /\ \A i \in DOMAIN cities :
           get_id_by_name(name_to_id, get_name_by_id(cities, i)) = i

====
